---- MODULE Spec2Model ----
(***************************************************************************)
(* Personal Finance Dashboard (src/app.py).                                *)
(*                                                                         *)
(* Four specifications over one set of variables:                          *)
(*   Spec          the users and entries tables under sign-in, CSV import  *)
(*                 and the add-entry form;                                 *)
(*   SpecAccounts  the users and budgets tables under sign-in and          *)
(*                 Save Budget;                                            *)
(*   SpecScore     financial_health_score applied to totals;               *)
(*   SpecInsights  lines 238-241 (compute_summary, financial_health_score, *)
(*                 generate_insights) applied to a ledger as               *)
(*                 get_entries_df returns it.                              *)
(* No handler writes both budgets and entries, so the two store            *)
(* specifications are kept apart; each leaves the other's table empty.     *)
(*                                                                         *)
(* Amounts are whole numbers. The score is computed in binary64 as the     *)
(* code computes it. The ratios of generate_insights are kept exact        *)
(* (numerator and denominator, compared by cross-multiplication): for      *)
(* whole totals below 10^15 a binary64 quotient compares with the literals *)
(* 0.4 and 0.05 as the exact quotient compares with 2/5 and 1/20.          *)
(* Strings that the code transforms (the CSV "type" cell) are sequences of *)
(* one-character strings.                                                  *)
(***************************************************************************)
EXTENDS Integers, Sequences, FiniteSets, TLC

(* ------------------------------ bounds --------------------------------- *)
MaxEntries == 2     \* rows in the entries table, and in a ledger
MaxBudget == 4      \* largest value typed into the budget field
MaxTotal == 50      \* largest total handed to financial_health_score

(* ------------------------------ values --------------------------------- *)
None == <<>>        \* Python None / fetchone() without a row
Some(v) == <<v>>    \* a present value

Income == <<"I", "n", "c", "o", "m", "e">>
Expense == <<"E", "x", "p", "e", "n", "s", "e">>

Usernames == {"guest", "ayan"}

Date(m, d) == [m |-> m, d |-> d]

(* ------------------------- str.capitalize() ---------------------------- *)
Letters ==
  { <<"a", "A">>, <<"c", "C">>, <<"e", "E">>, <<"f", "F">>, <<"i", "I">>,
    <<"m", "M">>, <<"n", "N">>, <<"o", "O">>, <<"p", "P">>, <<"r", "R">>,
    <<"s", "S">>, <<"t", "T">>, <<"x", "X">> }

upper(c) ==
  IF \E p \in Letters : p[1] = c THEN (CHOOSE p \in Letters : p[1] = c)[2] ELSE c

lower(c) ==
  IF \E p \in Letters : p[2] = c THEN (CHOOSE p \in Letters : p[2] = c)[1] ELSE c

capitalize(s) ==
  [i \in 1..Len(s) |-> IF i = 1 THEN upper(s[i]) ELSE lower(s[i])]

(* ------------------------------ state ---------------------------------- *)
VARIABLES
  users,      \* table users: rows [id, username, display_name]
  userSeq,    \* AUTOINCREMENT counter of users.id
  budgets,    \* table budgets: rows [user_id, monthly_budget]
  entries,    \* table entries: sequence of rows, position = entries.id
  seen,       \* history: usernames that reached the sign-in block
  lastSet,    \* history: user_id -> amount of the latest set_budget, or None
  df,         \* line 235: the signed-in user's rows, ordered by date
  budget_val, \* line 239: get_budget's result
  today,      \* date.today() of the run
  income,     \* line 238
  expenses,   \* line 238
  score,      \* line 240
  insights,   \* line 241
  pc          \* how far the analytics pass of the run has come

stores == <<users, userSeq, budgets, entries, seen, lastSet>>
pass == <<df, budget_val, today, income, expenses, score, insights, pc>>
vars == <<users, userSeq, budgets, entries, seen, lastSet,
          df, budget_val, today, income, expenses, score, insights, pc>>

UserIds == 1..Cardinality(Usernames)

init_db ==
  /\ users = {}
  /\ userSeq = 0
  /\ budgets = {}
  /\ entries = <<>>

StoresInit ==
  /\ init_db
  /\ seen = {}
  /\ lastSet = [u \in UserIds |-> None]

PassIdle ==
  /\ df = <<>>
  /\ budget_val = None
  /\ today = Date(2, 2)
  /\ income = 0
  /\ expenses = 0
  /\ score = 0
  /\ insights = <<>>
  /\ pc = "idle"

Init == StoresInit /\ PassIdle

(* SELECT * FROM users WHERE username=? ... fetchone() *)
get_user(tbl, username) ==
  IF \E r \in tbl : r.username = username
    THEN Some(CHOOSE r \in tbl : r.username = username)
    ELSE None

(* INSERT INTO users; the UNIQUE(username) violation is swallowed *)
add_user_noUnique(tbl, seq, username, display_name) ==
  [users |-> tbl \cup {[id |-> seq + 1, username |-> username,
                        display_name |-> display_name]},
   userSeq |-> seq + 1]

add_user(tbl, seq, username, display_name) ==
  IF \E r \in tbl : r.username = username
    THEN [users |-> tbl, userSeq |-> seq]
    ELSE [users |-> tbl \cup {[id |-> seq + 1, username |-> username,
                               display_name |-> display_name]},
          userSeq |-> seq + 1]

(* lines 159-163: the users table after the sign-in block *)
sign_in(tbl, seq, username) ==
  IF get_user(tbl, username) = None
    THEN add_user(tbl, seq, username, username)
    ELSE [users |-> tbl, userSeq |-> seq]

(* SELECT then UPDATE or INSERT *)
set_budget_insertOnly(tbl, user_id, amount) ==
  tbl \cup {[user_id |-> user_id, monthly_budget |-> amount]}

set_budget(tbl, user_id, amount) ==
  IF \E r \in tbl : r.user_id = user_id
    THEN {IF r.user_id = user_id
            THEN [r EXCEPT !.monthly_budget = amount] ELSE r : r \in tbl}
    ELSE tbl \cup {[user_id |-> user_id, monthly_budget |-> amount]}

get_budget(tbl, user_id) ==
  IF \E r \in tbl : r.user_id = user_id
    THEN Some((CHOOSE r \in tbl : r.user_id = user_id).monthly_budget)
    ELSE None

add_entry(tbl, user_id, type_, amount, category, date_str) ==
  Append(tbl, [user_id |-> user_id, type |-> type_, amount |-> amount,
               category |-> category, date |-> date_str])

(* ------------------------------ inputs --------------------------------- *)
BudgetInputs == -1..MaxBudget       \* number_input without min_value

FormTypes == {Income, Expense}      \* selectbox "Type"
FormAmounts == {0, 1}               \* number_input with min_value=0.0
FormCategories == {"Food", "Other"}
EntryDates == {Date(2, 1)}

CsvTypes ==
  { <<"i", "n", "c", "o", "m", "e">>,
    <<"E", "X", "P", "E", "N", "S", "E">>,
    <<"t", "r", "a", "n", "s", "f", "e", "r">> }

Num(v) == [isnum |-> TRUE, val |-> v]
NotNum == [isnum |-> FALSE, val |-> 0]      \* a cell float() cannot parse
CsvAmounts == {Num(-1), Num(0), Num(1), NotNum}

CsvRows ==
  [type : CsvTypes, amount : CsvAmounts, category : {"Food"}, date : EntryDates]

SeqsUpTo(S, n) == UNION {[1..k -> S] : k \in 0..n}

required_cols == {"type", "amount", "category", "date"}

ColLower(c) ==
  CASE c = "Type" -> "type"
    [] c = "Category" -> "category"
    [] OTHER -> c

CsvHeaders ==
  { required_cols,
    (required_cols \ {"type"}) \cup {"Type"},
    (required_cols \ {"category"}) \cup {"Category"},
    required_cols \ {"amount"} }

CsvFiles(maxRows) ==
  [columns : CsvHeaders, rows : SeqsUpTo(CsvRows, maxRows)]

(* lines 196-201: the rows stored before the loop ends or raises *)
RECURSIVE import_rows(_, _, _, _)
import_rows(tbl, user_id, csv, i) ==
  IF i > Len(csv.rows) THEN tbl
  ELSE LET row == csv.rows[i] IN
    IF "type" \notin csv.columns THEN tbl                 \* KeyError
    ELSE IF ~row.amount.isnum THEN tbl                     \* ValueError
    ELSE LET ttype == capitalize(row.type)
             amt == row.amount.val
             cat == IF "category" \in csv.columns
                      THEN row.category ELSE "Other"
         IN import_rows(add_entry(tbl, user_id, ttype, amt, cat, row.date),
                        user_id, csv, i + 1)

(* lines 189-204 *)
import_csv(tbl, user_id, csv) ==
  IF ~(required_cols \subseteq {ColLower(c) : c \in csv.columns})
    THEN tbl
    ELSE import_rows(tbl, user_id, csv, 1)

(* lines 227-232 *)
submit_entry(tbl, user_id, type_, amount, category, date_in) ==
  IF amount <= 0 THEN tbl
  ELSE add_entry(tbl, user_id, type_, amount, category, date_in)


(* ----------------------------- analytics ------------------------------ *)
(* exact ratios: num / den with den > 0 wherever the code divides *)
Frac(n, d) == [num |-> n, den |-> d]
Zero == Frac(0, 1)
FracGT(q, n, d) == q.num * d > n * q.den     \* q > n / d
FracLT(q, n, d) == q.num * d < n * q.den     \* q < n / d
Max(a, b) == IF a >= b THEN a ELSE b
Min(a, b) == IF a <= b THEN a ELSE b

(* rows['amount'].sum() *)
RECURSIVE AmountSum(_)
AmountSum(rows) ==
  IF rows = <<>> THEN 0 ELSE Head(rows).amount + AmountSum(Tail(rows))

(* df[mask]['amount'].sum() *)
SumAmounts(rows, Mask(_)) == AmountSum(SelectSeq(rows, Mask))

IsIncome(r) == r.type = Income
IsExpense(r) == r.type = Expense

compute_summary(rows) ==
  LET inc == IF rows # <<>> THEN SumAmounts(rows, IsIncome) ELSE 0
      exp == IF rows # <<>> THEN SumAmounts(rows, IsExpense) ELSE 0
  IN [income |-> inc, expenses |-> exp, savings |-> inc - exp]

(* ----------------------- binary64 arithmetic --------------------------- *)
(* A positive float is sig * 2^(exp - 52) with a 53-bit significand sig,   *)
(* 2^52 <= sig < 2^53, held as three digits in base 2^18 (most significant *)
(* first, the first digit 17 bits wide). 0.0 has significand 0. Every      *)
(* operation rounds to nearest, ties to even. Operands are integers small  *)
(* enough for every intermediate product to stay below 2^31.               *)
MantissaBits == 53
Limb == 2^18
TopLimb == 2^(MantissaBits - 36)      \* bound of the first digit: 2^17

FZero == [sig |-> <<0, 0, 0>>, exp |-> 0]

(* the significand after rounding: sig + 1 when the dropped part is above  *)
(* one half (up), or exactly one half (tie) with sig odd                   *)
RoundSig(sig, e, up, tie) ==
  IF up \/ (tie /\ sig[3] % 2 = 1)
    THEN LET n3 == sig[3] + 1
             n2 == sig[2] + (n3 \div Limb)
             n1 == sig[1] + (n2 \div Limb)
         IN IF n1 = TopLimb
              THEN [sig |-> <<TopLimb \div 2, 0, 0>>, exp |-> e + 1]
              ELSE [sig |-> <<n1, n2 % Limb, n3 % Limb>>, exp |-> e]
    ELSE [sig |-> sig, exp |-> e]

(* scale x / y into [1, 2) *)
RECURSIVE Normalize(_, _, _)
Normalize(x, y, k) ==
  IF x < y THEN Normalize(2 * x, y, k - 1)
  ELSE IF x >= 2 * y THEN Normalize(x, 2 * y, k + 1)
  ELSE [x |-> x, y |-> y, exp |-> k]

(* float(a) / float(b) for integers a >= 0, b > 0: long division *)
fdiv(a, b) ==
  IF a = 0 THEN FZero
  ELSE LET s == Normalize(a, b, 0)
           y == s.y
           r0 == s.x - y
           t1 == r0 * (TopLimb \div 2)
           r1 == t1 % y
           t2 == r1 * Limb
           r2 == t2 % y
           t3 == r2 * Limb
           r3 == t3 % y
           sig == <<(TopLimb \div 2) + (t1 \div y), t2 \div y, t3 \div y>>
       IN RoundSig(sig, s.exp, 2 * r3 > y, 2 * r3 = y)

(* f * float(c) for an integer 64 <= c < 128: the exact product has 6 or 7 *)
(* bits more than the significand                                          *)
fmul(f, c) ==
  IF f.sig = <<0, 0, 0>> THEN FZero
  ELSE LET t3 == f.sig[3] * c
           t2 == f.sig[2] * c + (t3 \div Limb)
           t1 == f.sig[1] * c + (t2 \div Limb)
           p2 == t2 % Limb
           p3 == t3 % Limb
           shift == IF t1 >= TopLimb * 64 THEN 128 ELSE 64
           dropped == p3 % shift
           sig == << t1 \div shift,
                     (t1 % shift) * (Limb \div shift) + (p2 \div shift),
                     (p2 % shift) * (Limb \div shift) + (p3 \div shift) >>
           e == f.exp + (IF shift = 128 THEN 7 ELSE 6)
       IN RoundSig(sig, e, 2 * dropped > shift, 2 * dropped = shift)

(* int(f) for 0 <= f < 2^17: the integer part *)
ftrunc(f) ==
  IF f.sig = <<0, 0, 0>> \/ f.exp < 0 THEN 0
  ELSE f.sig[1] \div (2 ^ (MantissaBits - 37 - f.exp))

(* lines 93-98, for integer-valued totals: income - expenses is exact, and *)
(* max(0.0, x) of a negative quotient is 0.0                               *)
financial_health_score(inc, exp) ==
  IF inc <= 0 THEN 0
  ELSE LET save_ratio == IF inc - exp < 0 THEN FZero ELSE fdiv(inc - exp, inc)
           sc == ftrunc(fmul(save_ratio, 100))
       IN Min(Max(sc, 0), 100)

(* one insight: the rule that produced it, which of its templates, and the *)
(* values the template interpolates                                        *)
Msg(rule, form, cat, pct, budget, spent) ==
  [rule |-> rule, form |-> form, cat |-> cat, pct |-> pct,
   budget |-> budget, spent |-> spent]

(* df[df['type']=='Expense'].groupby('category')['amount'].sum() *)
ExpenseCategories(rows) ==
  {rows[i].category : i \in {j \in 1..Len(rows) : IsExpense(rows[j])}}

CategorySum(rows, c) ==
  LET InCat(r) == IsExpense(r) /\ r.category = c IN SumAmounts(rows, InCat)

(* index[0] after sort_values(ascending=False): a category of largest sum; *)
(* which one among equal sums is the sort's choice                         *)
TopCategories(rows) ==
  {c \in ExpenseCategories(rows) :
     \A o \in ExpenseCategories(rows) : CategorySum(rows, c) >= CategorySum(rows, o)}

(* lines 102-109 *)
top_category_rule(rows, exp, top_cat) ==
  IF rows # <<>> /\ \E i \in 1..Len(rows) : IsExpense(rows[i])
    THEN LET top_pct == IF exp > 0 THEN Frac(CategorySum(rows, top_cat), exp)
                        ELSE Zero
         IN IF FracGT(top_pct, 2, 5)
              THEN <<Msg("top_category", "warning", top_cat, top_pct, 0, 0)>>
              ELSE <<Msg("top_category", "positive", top_cat, top_pct, 0, 0)>>
    ELSE <<>>

DateGE(a, b) == a.m > b.m \/ (a.m = b.m /\ a.d >= b.d)

(* line 112 *)
monthly_expenses(rows, day) ==
  LET this_month == [day EXCEPT !.d = 1]
      ThisMonth(r) == IsExpense(r) /\ DateGE(r.date, this_month)
  IN IF rows # <<>> THEN SumAmounts(rows, ThisMonth) ELSE 0

(* lines 110-117 *)
budget_rule(rows, budget, day) ==
  IF budget # None
    THEN LET b == budget[1]
             monthly_exp == monthly_expenses(rows, day)
         IN IF monthly_exp > b
              THEN <<Msg("budget", "alert", "", Zero, b, monthly_exp)>>
              ELSE LET pct == IF b > 0 THEN Frac(monthly_exp, b) ELSE Zero
                   IN <<Msg("budget", "info", "", pct, b, monthly_exp)>>
    ELSE <<>>

low_savings_rule_inclusive(inc, exp) ==
  IF inc > 0 /\ ~FracGT(Frac(inc - exp, inc), 1, 20)
    THEN <<Msg("low_savings", "advice", "", Zero, 0, 0)>>
    ELSE <<>>

(* lines 118-119 *)
low_savings_rule(inc, exp) ==
  IF inc > 0 /\ FracLT(Frac(inc - exp, inc), 1, 20)
    THEN <<Msg("low_savings", "advice", "", Zero, 0, 0)>>
    ELSE <<>>

Fallback == Msg("fallback", "none", "", Zero, 0, 0)

generate_insights_alwaysFallback(rows, inc, exp, budget, day, top_cat) ==
  top_category_rule(rows, exp, top_cat)
    \o budget_rule(rows, budget, day)
    \o low_savings_rule(inc, exp)
    \o <<Fallback>>

generate_insights_elif(rows, inc, exp, budget, day, top_cat) ==
  LET t == top_category_rule(rows, exp, top_cat)
      b == budget_rule(rows, budget, day)
      l == low_savings_rule(inc, exp)
  IN IF t # <<>> THEN t
     ELSE IF b # <<>> THEN b
     ELSE IF l # <<>> THEN l
     ELSE <<Fallback>>

(* lines 100-122; top_cat is exp_df.index[0] *)
generate_insights(rows, inc, exp, budget, day, top_cat) ==
  LET found == top_category_rule(rows, exp, top_cat)
                 \o budget_rule(rows, budget, day)
                 \o low_savings_rule(inc, exp)
  IN IF found = <<>> THEN <<Fallback>> ELSE found

(* --------------------------- store actions ----------------------------- *)
(* Every run of the script starts with the sign-in block (lines 158-166).  *)
(* With an empty username no row of any table is written: user is unbound  *)
(* and the import's try swallows the NameError.                            *)

SignIn(username) ==
  LET s == sign_in(users, userSeq, username) IN
  /\ users' = s.users
  /\ userSeq' = s.userSeq
  /\ seen' = seen \cup {username}
  /\ UNCHANGED <<budgets, entries, lastSet>>
  /\ UNCHANGED pass

(* add_user reached at line 162 by a session whose get_user at line 160   *)
(* ran before another session inserted the same username                  *)
AddUser(username) ==
  LET s == add_user(users, userSeq, username, username) IN
  /\ username \in seen
  /\ users' = s.users
  /\ userSeq' = s.userSeq
  /\ UNCHANGED <<budgets, entries, seen, lastSet>>
  /\ UNCHANGED pass

SaveBudget(username, budget_input) ==
  LET s == sign_in(users, userSeq, username)
      user == get_user(s.users, username)[1]
  IN
  /\ users' = s.users
  /\ userSeq' = s.userSeq
  /\ seen' = seen \cup {username}
  /\ budgets' = set_budget(budgets, user.id, budget_input)
  /\ lastSet' = [lastSet EXCEPT ![user.id] = Some(budget_input)]
  /\ UNCHANGED entries
  /\ UNCHANGED pass

ImportCSV(username, csv) ==
  LET s == sign_in(users, userSeq, username)
      user == get_user(s.users, username)[1]
  IN
  /\ users' = s.users
  /\ userSeq' = s.userSeq
  /\ seen' = seen \cup {username}
  /\ entries' = import_csv(entries, user.id, csv)
  /\ UNCHANGED <<budgets, lastSet>>
  /\ UNCHANGED pass

SubmitEntry(username, type_, amount, category, date_in) ==
  LET s == sign_in(users, userSeq, username)
      user == get_user(s.users, username)[1]
  IN
  /\ Len(entries) < MaxEntries
  /\ users' = s.users
  /\ userSeq' = s.userSeq
  /\ seen' = seen \cup {username}
  /\ entries' = submit_entry(entries, user.id, type_, amount, category, date_in)
  /\ UNCHANGED <<budgets, lastSet>>
  /\ UNCHANGED pass

Next ==
  \/ \E u \in Usernames : SignIn(u)
  \/ \E u \in Usernames : AddUser(u)
  \/ \E u \in Usernames, csv \in CsvFiles(MaxEntries - Len(entries)) :
        ImportCSV(u, csv)
  \/ \E u \in Usernames, t \in FormTypes, a \in FormAmounts,
        c \in FormCategories, d \in EntryDates : SubmitEntry(u, t, a, c, d)

Spec == Init /\ [][Next]_vars

NextAccounts ==
  \/ \E u \in Usernames : SignIn(u)
  \/ \E u \in Usernames : AddUser(u)
  \/ \E u \in Usernames, b \in BudgetInputs : SaveBudget(u, b)

SpecAccounts == Init /\ [][NextAccounts]_vars

(* --------------------- financial_health_score alone -------------------- *)
Totals == -2..MaxTotal

InitScore ==
  /\ StoresInit
  /\ df = <<>>
  /\ budget_val = None
  /\ today = Date(2, 2)
  /\ income \in Totals
  /\ expenses \in Totals
  /\ score = 0
  /\ insights = <<>>
  /\ pc = "totals"

Score ==
  /\ pc = "totals"
  /\ score' = financial_health_score(income, expenses)
  /\ pc' = "scored"
  /\ UNCHANGED <<df, budget_val, today, income, expenses, insights>>
  /\ UNCHANGED stores

NextScore == Score

SpecScore == InitScore /\ [][NextScore]_vars

(* ------------------------ the analytics pass --------------------------- *)
(* What the entries table can hold for one user (see Spec): any            *)
(* capitalized type, any amount a CSV cell parses to.                      *)
LedgerTypes == {Income, Expense, capitalize(<<"t", "r", "a", "n", "s", "f", "e", "r">>)}
LedgerAmounts == {-1, 0, 1, 19, 20}
LedgerCategories == {"Food", "Rent"}
LedgerDates == {Date(1, 2), Date(2, 1)}
LedgerBudgets == {None} \cup {Some(b) : b \in {-1, 0, 1, 20}}
Todays == {Date(2, 2)}

LedgerRows ==
  [user_id : {1}, type : LedgerTypes, amount : LedgerAmounts,
   category : LedgerCategories, date : LedgerDates]

(* get_entries_df: ORDER BY date ASC *)
Ledgers ==
  {l \in SeqsUpTo(LedgerRows, MaxEntries) :
     \A i \in 1..Len(l) : \A j \in i..Len(l) : DateGE(l[j].date, l[i].date)}

InitInsights ==
  /\ StoresInit
  /\ df \in Ledgers
  /\ budget_val \in LedgerBudgets
  /\ today \in Todays
  /\ income = 0
  /\ expenses = 0
  /\ score = 0
  /\ insights = <<>>
  /\ pc = "loaded"

(* lines 238-241 *)
Analyse ==
  /\ pc = "loaded"
  /\ LET s == compute_summary(df) IN
       /\ income' = s.income
       /\ expenses' = s.expenses
       /\ score' = financial_health_score(s.income, s.expenses)
       /\ \E top_cat \in (IF TopCategories(df) = {} THEN {""} ELSE TopCategories(df)) :
            insights' = generate_insights(df, s.income, s.expenses,
                                          budget_val, today, top_cat)
  /\ pc' = "done"
  /\ UNCHANGED <<df, budget_val, today>>
  /\ UNCHANGED stores

NextInsights == Analyse

SpecInsights == InitInsights /\ [][NextInsights]_vars

(* ============================== claims ================================= *)
FracEQ(q, r) == q.num * r.den = r.num * q.den
Ratio(n, d) == IF d > 0 THEN Frac(n, d) ELSE Frac(-n, -d)    \* n / d, d # 0

HasRule(r) == \E i \in 1..Len(insights) : insights[i].rule = r
RuleMsgs(r) == {i \in 1..Len(insights) : insights[i].rule = r}
HasExpense == \E i \in 1..Len(df) : df[i].type = Expense
RuleRank(r) ==
  CASE r = "top_category" -> 1
    [] r = "budget" -> 2
    [] r = "low_savings" -> 3
    [] OTHER -> 4

(* C1: for non-negative totals the score is an integer in [0,100], 0 when  *)
(* income <= 0, otherwise floor(max(0, (income - expenses) / income) *     *)
(* 100): 0 whenever expenses >= income, and 100 only when expenses = 0.    *)
C1_ScoreContract ==
  (pc = "scored" /\ income >= 0 /\ expenses >= 0) =>
    /\ score \in 0..100
    /\ (income <= 0 => score = 0)
    /\ (income > 0 /\ expenses >= income => score = 0)
    /\ (income > 0 /\ expenses < income =>
          /\ score * income <= 100 * (income - expenses)
          /\ 100 * (income - expenses) < (score + 1) * income)
    /\ (score = 100 => expenses = 0)

(* C2: the insight list is never empty; the "no major issues" message is   *)
(* in it exactly when no top-category, budget or low-savings message is,   *)
(* and then it is the only element.                                        *)
C2_FallbackOnlyWhenNothingElse ==
  pc = "done" =>
    /\ Len(insights) >= 1
    /\ (HasRule("fallback") <=>
          ~(HasRule("top_category") \/ HasRule("budget") \/ HasRule("low_savings")))
    /\ (HasRule("fallback") => insights = <<Fallback>>)

C2_Witness ==
  pc = "done" /\ df # <<>> /\ insights = <<Fallback>>

(* C3: messages come in the order top-category, budget, low-savings, at    *)
(* most one per rule, and each rule fires on its own condition whatever    *)
(* the other rules do.                                                     *)
C3_OrderedIndependentRules ==
  pc = "done" =>
    /\ \A i \in 1..Len(insights) : \A j \in 1..Len(insights) :
          i < j => RuleRank(insights[i].rule) < RuleRank(insights[j].rule)
    /\ (HasRule("top_category") <=> HasExpense)
    /\ (HasRule("budget") <=> budget_val # None)
    /\ (HasRule("low_savings") <=>
          (income > 0 /\ 20 * (income - expenses) < income))

C3_Witness ==
  /\ pc = "done"
  /\ Len(insights) = 3
  /\ insights[1].rule = "top_category"
  /\ insights[2].rule = "budget"
  /\ insights[3].rule = "low_savings"

(* C4: the top-category rule emits one message exactly when the ledger has *)
(* an Expense row; it names a category of largest summed Expense amount,   *)
(* its share is that sum over total expenses (0 when total expenses is 0), *)
(* and the message is the warning form iff share > 0.40, else the          *)
(* positive form.                                                          *)
C4_TopCategoryRule ==
  pc = "done" =>
    /\ Cardinality(RuleMsgs("top_category")) = (IF HasExpense THEN 1 ELSE 0)
    /\ \A i \in RuleMsgs("top_category") :
          LET m == insights[i]
              share == IF expenses = 0 THEN Zero
                       ELSE Ratio(CategorySum(df, m.cat), expenses)
          IN /\ m.cat \in TopCategories(df)
             /\ FracEQ(m.pct, share)
             /\ m.form = (IF FracGT(share, 2, 5) THEN "warning" ELSE "positive")

(* C5: the budget rule emits one message exactly when a budget is set      *)
(* (0 included); it is the alert form iff the Expense amounts dated on or  *)
(* after the first day of the current month exceed the budget, otherwise   *)
(* the informational form with percentage spent / budget, or 0 when the    *)
(* budget is 0.                                                            *)
C5_BudgetRule ==
  pc = "done" =>
    /\ Cardinality(RuleMsgs("budget")) = (IF budget_val # None THEN 1 ELSE 0)
    /\ \A i \in RuleMsgs("budget") :
          LET m == insights[i]
              b == budget_val[1]
              OnOrAfter(r) == /\ r.type = Expense
                              /\ (r.date.m > today.m
                                    \/ (r.date.m = today.m /\ r.date.d >= 1))
              current_month_expenses == AmountSum(SelectSeq(df, OnOrAfter))
          IN /\ m.form = (IF current_month_expenses > b THEN "alert" ELSE "info")
             /\ m.budget = b
             /\ m.spent = current_month_expenses
             /\ (m.form = "info" =>
                   FracEQ(m.pct, IF b = 0 THEN Zero
                                 ELSE Ratio(current_month_expenses, b)))

(* C6: the low-savings message is emitted iff income > 0 and               *)
(* (income - expenses) / income < 0.05; with income = 0 it is never        *)
(* emitted, while the top-category rule still fires on an Expense row.     *)
C6_LowSavingsRule ==
  pc = "done" =>
    /\ Cardinality(RuleMsgs("low_savings")) =
          (IF income > 0 /\ 100 * (income - expenses) < 5 * income THEN 1 ELSE 0)
    /\ (income = 0 => ~HasRule("low_savings"))
    /\ (income = 0 /\ HasExpense => HasRule("top_category"))

C6_Witness ==
  /\ pc = "done"
  /\ income = 20
  /\ expenses = 20
  /\ HasExpense
  /\ HasRule("low_savings")

(* C7: every stored transaction has amount >= 0.                           *)
C7_AmountsNonNegative ==
  \A i \in 1..Len(entries) : entries[i].amount >= 0

(* C8: the budgets table holds at most one row per user, get_budget        *)
(* returns the amount of that user's latest set_budget (absent if none),   *)
(* and so a set_budget for one user leaves the others' budgets alone.      *)
C8_BudgetUpsert ==
  \A u \in UserIds :
    /\ Cardinality({r \in budgets : r.user_id = u}) <= 1
    /\ get_budget(budgets, u) = lastSet[u]

C8_Witness ==
  /\ Cardinality(budgets) = 2
  /\ get_budget(budgets, 1) = Some(4)
  /\ get_budget(budgets, 2) = Some(0)

(* C9: the users table holds exactly one row for every username seen at    *)
(* sign-in and none for any other, and no step removes a row or changes    *)
(* its id.                                                                 *)
C9_OneUserPerUsername ==
  /\ [](/\ \A n \in seen : Cardinality({r \in users : r.username = n}) = 1
        /\ \A r \in users : r.username \in seen)
  /\ [][\A r \in users : r \in users']_vars

C9_Witness ==
  /\ seen = Usernames
  /\ Cardinality(users) = 2
  /\ userSeq = 2

(* C10: every stored transaction has kind exactly "Income" or "Expense",   *)
(* so every stored amount is counted in total_income or total_expenses.    *)
C10_KindsRecognized ==
  /\ \A i \in 1..Len(entries) : entries[i].type \in {Income, Expense}
  /\ LET s == compute_summary(entries)
     IN s.income + s.expenses = AmountSum(entries)

====
